---------------------------- MODULE Spec2Model ----------------------------
(***************************************************************************)
(* A model of fileseq (src/src/fileseq/all.py): the FrameSet value type,   *)
(* its range-string parser, the sequence expander xfrange, the run         *)
(* compressor framesToFrameRange, and the FileSequence class with its      *)
(* setters.                                                                *)
(*                                                                         *)
(* Python strings are modelled as sequences of one-character strings, so   *)
(* that formatting and parsing are computed character by character.        *)
(* Python's None is the empty sequence; a value that may be None is kept   *)
(* in a one-element sequence (Some).                                       *)
(***************************************************************************)
EXTENDS Integers, Sequences, FiniteSets, TLC

VARIABLES input, fs, other, ret, op, gen, seq

vars == <<input, fs, other, ret, op, gen, seq>>

(***************************************************************************)
(* Bounds of the model.                                                    *)
(***************************************************************************)
\* longest raw string handed to the constructor in SpecParse
MaxStrLen == 5
\* frames of the clause inputs range over -ClauseSpan .. 2 * ClauseSpan + 4
ClauseSpan == 4
\* largest chunk of a clause input
MaxChunk == 3
\* longest frame sequence handed to framesToFrameRange
MaxSeqLen == 4
\* its frames range over -1 .. MaxSeqFrame
MaxSeqFrame == 3
\* longest frame sequence handed to from_iterable in Spec
MaxIterLen == 3
\* the frames of the inputs of Spec range over -1 .. MaxFrame
MaxFrame == 2
\* the widths handed to frameRange range over 0 .. MaxZfill
MaxZfill == 5
\* framesToFrameRange is called with zfill in 0 .. MaxSeqZfill
MaxSeqZfill == 2
\* the indexes handed to frame and __getitem__ range over -MaxIndex .. MaxIndex
MaxIndex == 5

None == <<>>
Some(v) == <<v>>
Val(o) == o[1]

Abs(x) == IF x < 0 THEN -x ELSE x

Range(s) == {s[i] : i \in 1..Len(s)}

(***************************************************************************)
(* Text: str(int), int(str), str.zfill, str.split, str.translate.          *)
(***************************************************************************)
Digits == <<"0", "1", "2", "3", "4", "5", "6", "7", "8", "9">>

IsDigit(c) == \E d \in 1..10 : Digits[d] = c

DigitVal(c) == (CHOOSE d \in 1..10 : Digits[d] = c) - 1

RECURSIVE NatToStr(_)
NatToStr(n) ==
    IF n < 10 THEN <<Digits[n + 1]>>
    ELSE NatToStr(n \div 10) \o <<Digits[(n % 10) + 1]>>

\* str(number) of a Python int
IntToStr(n) == IF n < 0 THEN <<"-">> \o NatToStr(-n) ELSE NatToStr(n)

RECURSIVE DigitsToNat(_)
DigitsToNat(s) ==
    IF s = <<>> THEN 0
    ELSE 10 * DigitsToNat(SubSeq(s, 1, Len(s) - 1)) + DigitVal(s[Len(s)])

\* int(text) of a text matched by \-?\d+
StrToInt(s) ==
    IF s[1] = "-" THEN -DigitsToNat(Tail(s)) ELSE DigitsToNat(s)

Zeros(n) == [i \in 1..n |-> "0"]

\* str.zfill(width): the width counts a leading sign, the zeros go after it
ZFill(s, width) ==
    IF Len(s) >= width THEN s
    ELSE IF s # <<>> /\ s[1] \in {"+", "-"}
         THEN <<s[1]>> \o Zeros(width - Len(s)) \o Tail(s)
         ELSE Zeros(width - Len(s)) \o s

pad(number, width) == ZFill(IntToStr(number), width)

_PADDING == [c \in {"#", "@"} |-> IF c = "#" THEN 4 ELSE 1]

\* str(frange).translate(None, ''.join(_PADDING.keys()))
StripPadding(s) == SelectSeq(s, LAMBDA c : c \notin DOMAIN _PADDING)

RECURSIVE Split(_, _)
Split(s, sep) ==
    IF \E i \in 1..Len(s) : s[i] = sep
    THEN LET i == CHOOSE k \in 1..Len(s) :
                      s[k] = sep /\ \A j \in 1..(k - 1) : s[j] # sep
         IN  <<SubSeq(s, 1, i - 1)>> \o Split(SubSeq(s, i + 1, Len(s)), sep)
    ELSE <<s>>

RECURSIVE Join(_, _)
Join(parts, sep) ==
    IF parts = <<>> THEN <<>>
    ELSE IF Len(parts) = 1 THEN parts[1]
    ELSE parts[1] \o <<sep>> \o Join(Tail(parts), sep)

(***************************************************************************)
(* _RANGE_RE = ^(\-?\d+)(?:\-(\-?\d+)(?:([:xy]{1})(\d+))?)?$               *)
(***************************************************************************)
\* the position after the longest run of digits that starts at i (i if none)
RECURSIVE DigitsEnd(_, _)
DigitsEnd(s, i) ==
    IF i <= Len(s) /\ IsDigit(s[i]) THEN DigitsEnd(s, i + 1) ELSE i

\* \d+ at position i: the position after the match, 0 when it fails
DigitsMatch(s, i) ==
    IF i <= Len(s) /\ IsDigit(s[i]) THEN DigitsEnd(s, i + 1) ELSE 0

\* \-?\d+ at position i: the position after the match, 0 when it fails
IntEnd(s, i) ==
    DigitsMatch(s, IF i <= Len(s) /\ s[i] = "-" THEN i + 1 ELSE i)

\* match.groups() of _RANGE_RE.match(s), None when there is no match;
\* a group that did not take part is None
\* e1, e2 and e3 are the positions after the first number, after the second
\* number and after the chunk, 0 where the match did not get that far
_RANGE_RE(s) ==
    LET n == Len(s)
        Groups(e1, e2, e3) ==
            IF e1 = 0 THEN None
            ELSE IF e1 = n + 1
                 THEN Some(<<SubSeq(s, 1, e1 - 1), None, None, None>>)
            ELSE IF e2 = 0 THEN None
            ELSE IF e2 = n + 1
                 THEN Some(<<SubSeq(s, 1, e1 - 1), SubSeq(s, e1 + 1, e2 - 1),
                             None, None>>)
            ELSE IF e3 = n + 1 /\ e3 > e2 + 1
                 THEN Some(<<SubSeq(s, 1, e1 - 1), SubSeq(s, e1 + 1, e2 - 1),
                             <<s[e2]>>, SubSeq(s, e2 + 1, n)>>)
            ELSE None
        Chunk(e1, e2) ==
            Groups(e1, e2, IF e2 > 0 /\ e2 <= n /\ s[e2] \in {":", "x", "y"}
                           THEN DigitsEnd(s, e2 + 1) ELSE 0)
        Second(e1) ==
            Chunk(e1, IF e1 > 0 /\ e1 <= n /\ s[e1] = "-"
                      THEN IntEnd(s, e1 + 1) ELSE 0)
    IN  Second(IntEnd(s, 1))

\* FrameSet._parse_frange_part
_parse_frange_part(frange) ==
    LET Part(start, end, modifier, chunk) ==
            IF chunk = 0
            THEN [kind |-> "ParseException",
                  msg |-> "chunk cannot be 0", part |-> frange]
            ELSE [kind |-> "part", start |-> start, end |-> end,
                  modifier |-> modifier, chunk |-> chunk]
        Groups(start, end, modifier, chunk) ==
            Part(StrToInt(start),
                 IF end # None THEN StrToInt(end) ELSE StrToInt(start),
                 modifier,
                 IF chunk # None THEN Abs(StrToInt(chunk)) ELSE 1)
        Matched(match) ==
            IF match = None
            THEN [kind |-> "ParseException", msg |-> "did not match",
                  part |-> frange]
            ELSE Groups(Val(match)[1], Val(match)[2], Val(match)[3],
                        Val(match)[4])
    IN  Matched(_RANGE_RE(frange))

(***************************************************************************)
(* xfrange and the xrange it wraps.                                        *)
(***************************************************************************)
\* the values of xrange(start, stop, step), step # 0
xrange(start, stop, step) ==
    LET n == IF step > 0
             THEN (IF stop > start
                   THEN (stop - start + step - 1) \div step ELSE 0)
             ELSE (IF start > stop
                   THEN (start - stop - step - 1) \div (-step) ELSE 0)
    IN  [k \in 1..n |-> start + (k - 1) * step]

\* xfrange without the step past stop: the stop value itself is left out
xfrange_Exclusive(start, stop, step) ==
    IF start <= stop
    THEN xrange(start, stop, Abs(step))
    ELSE xrange(start, stop, -Abs(step))

xfrange(start, stop, step) ==
    IF start <= stop
    THEN xrange(start, stop + 1, Abs(step))
    ELSE xrange(start, stop - 1, -Abs(step))

(***************************************************************************)
(* FrameSet.__init__ on a string.                                          *)
(***************************************************************************)
NotIn(frames, items) == SelectSeq(frames, LAMBDA f : f \notin items)

\* Extend without the "if f not in items" filter
Extend_KeepSeen(acc, frames) ==
    [acc EXCEPT !.items = acc.items \cup Range(frames),
                !.order = acc.order \o frames]

\* Extend without items.update(frames)
Extend_NoUpdate(acc, frames) ==
    [acc EXCEPT !.order = acc.order \o NotIn(frames, acc.items)]

\* the list comprehension, order.extend(frames) and items.update(frames)
Extend(acc, frames) ==
    LET new == NotIn(frames, acc.items)
    IN  [acc EXCEPT !.items = acc.items \cup Range(new),
                    !.order = acc.order \o new]

\* StaggerLoop with each stride counted from the first multiple of the
\* stagger at or after start instead of from start
RECURSIVE StaggerLoop_Aligned(_, _, _, _)
StaggerLoop_Aligned(acc, start, end, staggers) ==
    IF staggers = <<>> THEN acc
    ELSE StaggerLoop_Aligned(
             Extend(acc, xfrange(start + ((0 - start) % staggers[1]), end,
                                 staggers[1])),
             start, end, Tail(staggers))

\* the loop of the ':' branch: for stagger in xrange(chunk, 0, -1)
RECURSIVE StaggerLoop(_, _, _, _)
StaggerLoop(acc, start, end, staggers) ==
    IF staggers = <<>> THEN acc
    ELSE StaggerLoop(Extend(acc, xfrange(start, end, staggers[1])),
                     start, end, Tail(staggers))

\* AddPart with the staggers of ':' taken from 1 up to chunk
AddPart_StaggerAscending(acc, p) ==
    IF p.modifier = <<"x">>
    THEN Extend(acc, xfrange(p.start, p.end, p.chunk))
    ELSE IF p.modifier = <<":">>
    THEN StaggerLoop(acc, p.start, p.end, xrange(1, p.chunk + 1, 1))
    ELSE IF p.modifier = <<"y">>
    THEN LET not_good == Range(xfrange(p.start, p.end, p.chunk))
         IN  Extend(acc, NotIn(xfrange(p.start, p.end, 1), not_good))
    ELSE Extend(acc, xfrange(p.start, p.end,
                             IF p.start < p.end THEN 1 ELSE -1))

\* AddPart with the 'y' branch not leaving out the frames of the stride
AddPart_FillKeepsStride(acc, p) ==
    IF p.modifier = <<"x">>
    THEN Extend(acc, xfrange(p.start, p.end, p.chunk))
    ELSE IF p.modifier = <<":">>
    THEN StaggerLoop(acc, p.start, p.end, xrange(p.chunk, 0, -1))
    ELSE IF p.modifier = <<"y">>
    THEN Extend(acc, xfrange(p.start, p.end, 1))
    ELSE Extend(acc, xfrange(p.start, p.end,
                             IF p.start < p.end THEN 1 ELSE -1))

\* one iteration of "for part in self._frange.split(',')" on a parsed part
AddPart(acc, p) ==
    IF p.modifier = <<"x">>
    THEN Extend(acc, xfrange(p.start, p.end, p.chunk))
    ELSE IF p.modifier = <<":">>
    THEN StaggerLoop(acc, p.start, p.end, xrange(p.chunk, 0, -1))
    ELSE IF p.modifier = <<"y">>
    THEN LET not_good == Range(xfrange(p.start, p.end, p.chunk))
         IN  Extend(acc, NotIn(xfrange(p.start, p.end, 1), not_good))
    ELSE Extend(acc, xfrange(p.start, p.end,
                             IF p.start < p.end THEN 1 ELSE -1))

\* PartsLoop without "if not part: continue"
RECURSIVE PartsLoop_NoSkipEmpty(_, _)
PartsLoop_NoSkipEmpty(acc, parts) ==
    IF parts = <<>> THEN acc
    ELSE LET Add(p) ==
                 IF p.kind = "ParseException" THEN p
                 ELSE PartsLoop_NoSkipEmpty(AddPart(acc, p), Tail(parts))
         IN  Add(_parse_frange_part(parts[1]))

RECURSIVE PartsLoop(_, _)
PartsLoop(acc, parts) ==
    IF parts = <<>> THEN acc
    ELSE IF parts[1] = <<>> THEN PartsLoop(acc, Tail(parts))
    ELSE LET Add(p) ==
                 IF p.kind = "ParseException" THEN p
                 ELSE PartsLoop(AddPart(acc, p), Tail(parts))
         IN  Add(_parse_frange_part(parts[1]))

\* FrameSet(frange) for a string frange: the new instance, or the exception
\* that leaves the constructor
FrameSetInit(frange) ==
    LET _frange == StripPadding(frange)
        empty   == [kind |-> "FrameSet", frange |-> _frange,
                    items |-> {}, order |-> <<>>]
    IN  IF _frange = <<>> THEN empty
        ELSE PartsLoop(empty, Split(_frange, ","))

(***************************************************************************)
(* unique, FrameSet._build_frange_part, FrameSet.framesToFrameRanges and   *)
(* FrameSet.framesToFrameRange.                                            *)
(***************************************************************************)
\* unique(seen, frames), consumed to the end: the items it yields and the
\* seen set it leaves behind
RECURSIVE unique(_, _)
unique(seen, frames) ==
    IF frames = <<>> THEN [seen |-> seen, out |-> <<>>]
    ELSE IF frames[1] \in seen THEN unique(seen, Tail(frames))
    ELSE LET Yield(rest) ==
                 [seen |-> rest.seen, out |-> <<frames[1]>> \o rest.out]
         IN  Yield(unique(seen \cup {frames[1]}, Tail(frames)))

\* sorted(frames) / frames.sort()
sorted(frames) == SortSeq(frames, LAMBDA a, b : a < b)

\* _build_frange_part without the case for start == stop
_build_frange_part_NoSameCheck(start, stop, stride, zfill) ==
    IF stop = None THEN <<>>
    ELSE IF stride = None THEN pad(Val(start), zfill)
    ELSE IF Abs(Val(stride)) = 1
         THEN pad(Val(start), zfill) \o <<"-">> \o pad(Val(stop), zfill)
    ELSE pad(Val(start), zfill) \o <<"-">> \o pad(Val(stop), zfill)
             \o <<"x">> \o IntToStr(Val(stride))

\* _build_frange_part without the case for a stride of 1
_build_frange_part_AlwaysStride(start, stop, stride, zfill) ==
    IF stop = None THEN <<>>
    ELSE IF stride = None \/ start = stop THEN pad(Val(start), zfill)
    ELSE pad(Val(start), zfill) \o <<"-">> \o pad(Val(stop), zfill)
             \o <<"x">> \o IntToStr(Val(stride))

\* start, stop and stride may be None
_build_frange_part(start, stop, stride, zfill) ==
    IF stop = None THEN <<>>
    ELSE IF stride = None \/ start = stop THEN pad(Val(start), zfill)
    ELSE IF Abs(Val(stride)) = 1
         THEN pad(Val(start), zfill) \o <<"-">> \o pad(Val(stop), zfill)
    ELSE pad(Val(start), zfill) \o <<"-">> \o pad(Val(stop), zfill)
             \o <<"x">> \o IntToStr(Val(stride))

\* the locals of the generator framesToFrameRanges before its loop; idx is
\* the position of the for loop in frames, out the tokens yielded so far
GenStart(frames, zfill) ==
    [frames |-> frames, zfill |-> zfill, idx |-> 1, out |-> <<>>,
     curr_start |-> None, curr_stride |-> None, curr_frame |-> None,
     last_frame |-> None, curr_count |-> 0]

\* one iteration of "for curr_frame in frames"
LoopBody(g) ==
    LET f  == g.frames[g.idx]
        g1 == [g EXCEPT !.idx = g.idx + 1, !.curr_frame = Some(f)]
    IN  IF g.curr_start = None
        THEN [g1 EXCEPT !.curr_start = Some(f), !.last_frame = Some(f),
                        !.curr_count = g.curr_count + 1]
        ELSE LET curr_stride == IF g.curr_stride = None
                                THEN Some(Abs(f - Val(g.curr_start)))
                                ELSE g.curr_stride
                 new_stride  == Abs(f - Val(g.last_frame))
             IN  IF Val(curr_stride) = new_stride
                 THEN [g1 EXCEPT !.curr_stride = curr_stride,
                                 !.last_frame = Some(f),
                                 !.curr_count = g.curr_count + 1]
                 ELSE IF g.curr_count = 2
                 THEN [g1 EXCEPT
                         !.out = g.out \o <<_build_frange_part(
                             g.curr_start, g.curr_start, None, g.zfill)>>,
                         !.curr_start = g.last_frame,
                         !.curr_stride = Some(new_stride),
                         !.last_frame = Some(f)]
                 ELSE [g1 EXCEPT
                         !.out = g.out \o <<_build_frange_part(
                             g.curr_start, g.last_frame, curr_stride,
                             g.zfill)>>,
                         !.curr_stride = None,
                         !.curr_start = Some(f),
                         !.last_frame = Some(f),
                         !.curr_count = 1]

\* AfterLoop without the branch for a final run of 2
AfterLoop_NoPairRule(g) ==
    [g EXCEPT !.out = g.out
        \o <<_build_frange_part(g.curr_start, g.curr_frame, g.curr_stride,
                                g.zfill)>>]

\* the yields after the loop
AfterLoop(g) ==
    IF g.curr_count = 2
    THEN [g EXCEPT !.out = g.out
            \o <<_build_frange_part(g.curr_start, g.curr_start, None, g.zfill),
                 _build_frange_part(g.curr_frame, g.curr_frame, None, g.zfill)>>]
    ELSE [g EXCEPT !.out = g.out
            \o <<_build_frange_part(g.curr_start, g.curr_frame, g.curr_stride,
                                    g.zfill)>>]

RECURSIVE RunGen(_)
RunGen(g) ==
    IF g.idx <= Len(g.frames) THEN RunGen(LoopBody(g)) ELSE AfterLoop(g)

\* list(FrameSet.framesToFrameRanges(frames, zfill))
framesToFrameRanges(frames, zfill) == RunGen(GenStart(frames, zfill)).out

\* the list framesToFrameRange hands to framesToFrameRanges
WorkList(frames, sort, compress) ==
    LET Sort(l) == IF sort THEN sorted(l) ELSE l
    IN  Sort(IF compress THEN unique({}, frames).out ELSE frames)

framesToFrameRange(frames, sort, zfill, compress) ==
    LET Render(l) ==
            IF l = <<>> THEN <<>>
            ELSE IF Len(l) = 1 THEN pad(l[1], zfill)
            ELSE Join(framesToFrameRanges(l, zfill), ",")
    IN  Render(WorkList(frames, sort, compress))

(***************************************************************************)
(* FrameSet: from_iterable, normalize, copy, the set algebra, __eq__ and   *)
(* __hash__.                                                               *)
(***************************************************************************)
NoObject == [kind |-> "None"]

\* iter(s) of a frozenset s; the order is the interpreter's business and
\* every caller below sorts the list it gets.  Here: descending.
RECURSIVE SetIter(_)
SetIter(s) ==
    IF s = {} THEN <<>>
    ELSE LET m == CHOOSE x \in s : \A y \in s : y <= x
         IN  <<m>> \o SetIter(s \ {m})

\* from_iterable with the range string rendered from the sorted frames
from_iterable_SortedRange(frames, sort) ==
    LET New(u) ==
            [kind |-> "FrameSet",
             frange |-> framesToFrameRange(u.out, TRUE, 0, FALSE),
             items |-> u.seen, order |-> u.out]
    IN  New(unique({}, IF sort THEN sorted(frames) ELSE frames))

\* from_iterable that never sorts
from_iterable_Unsorted(frames, sort) ==
    LET New(u) ==
            [kind |-> "FrameSet",
             frange |-> framesToFrameRange(u.out, FALSE, 0, FALSE),
             items |-> u.seen, order |-> u.out]
    IN  New(unique({}, frames))

\* FrameSet.from_iterable(frames, sort)
from_iterable(frames, sort) ==
    LET New(u) ==
            [kind |-> "FrameSet",
             frange |-> framesToFrameRange(u.out, FALSE, 0, FALSE),
             items |-> u.seen, order |-> u.out]
    IN  New(unique({}, IF sort THEN sorted(frames) ELSE frames))

\* normalize that passes sort=False
normalize_Unsorted(self) ==
    FrameSetInit(framesToFrameRange(SetIter(self.items), FALSE, 0, FALSE))

\* FrameSet.normalize
normalize(self) ==
    FrameSetInit(framesToFrameRange(SetIter(self.items), TRUE, 0, FALSE))

\* FrameSet.copy: FrameSet(str(self))
copy(self) == FrameSetInit(self.frange)

ValueError == [kind |-> "ValueError"]

KeyError == [kind |-> "KeyError"]

\* the tuple (self.frange, )
__getstate__(self) == [kind |-> "tuple", value |-> <<self.frange>>]

\* the FrameSet that __setstate__(state) makes of a new instance
__setstate__(state) ==
    IF state.kind = "tuple" THEN FrameSetInit(state.value[1])
    ELSE IF state.kind = "str" THEN FrameSetInit(state.value)
    ELSE IF state.kind = "dict"
    THEN IF {"__frange", "__set", "__list"} \subseteq DOMAIN state.value
         THEN [kind |-> "FrameSet", frange |-> state.value.__frange,
               items |-> state.value.__set, order |-> state.value.__list]
         ELSE IF {"_frange", "_items", "_order"} \subseteq DOMAIN state.value
         THEN [kind |-> "FrameSet", frange |-> state.value._frange,
               items |-> state.value._items, order |-> state.value._order]
         ELSE KeyError
    ELSE ValueError

(***************************************************************************)
(* _PAD_RE = (\-?)(\d+)(?:(\-)(\-?)(\d+)(?:([:xy]{1})(\d+))?)? and         *)
(* FrameSet.padFrameRange, FrameSet.frameRange.                            *)
(***************************************************************************)
\* _PAD_RE.match(s, i): None, or the seven groups and the position after the
\* match; a group that is empty or did not take part is ''.  e1, e2 and e3
\* are the positions after the first number, after the second number and
\* after the chunk, 0 where the match did not get that far.
_PAD_RE(s, i) ==
    LET n == Len(s)
        SignEnd(k) == IF k <= n /\ s[k] = "-" THEN k + 1 ELSE k
        Groups(e1, e2, e3) ==
            IF e1 = 0 THEN None
            ELSE IF e2 = 0
            THEN Some([end |-> e1,
                       groups |-> <<SubSeq(s, i, SignEnd(i) - 1),
                                    SubSeq(s, SignEnd(i), e1 - 1),
                                    <<>>, <<>>, <<>>, <<>>, <<>> >>])
            ELSE IF e3 = 0
            THEN Some([end |-> e2,
                       groups |-> <<SubSeq(s, i, SignEnd(i) - 1),
                                    SubSeq(s, SignEnd(i), e1 - 1),
                                    <<"-">>,
                                    SubSeq(s, e1 + 1, SignEnd(e1 + 1) - 1),
                                    SubSeq(s, SignEnd(e1 + 1), e2 - 1),
                                    <<>>, <<>> >>])
            ELSE Some([end |-> e3,
                       groups |-> <<SubSeq(s, i, SignEnd(i) - 1),
                                    SubSeq(s, SignEnd(i), e1 - 1),
                                    <<"-">>,
                                    SubSeq(s, e1 + 1, SignEnd(e1 + 1) - 1),
                                    SubSeq(s, SignEnd(e1 + 1), e2 - 1),
                                    <<s[e2]>>,
                                    SubSeq(s, e2 + 1, e3 - 1)>>])
        Chunk(e1, e2) ==
            Groups(e1, e2, IF e2 > 0 /\ e2 <= n /\ s[e2] \in {":", "x", "y"}
                           THEN DigitsMatch(s, e2 + 1) ELSE 0)
        Second(e1) ==
            Chunk(e1, IF e1 > 0 /\ e1 <= n /\ s[e1] = "-"
                      THEN IntEnd(s, e1 + 1) ELSE 0)
    IN  Second(IntEnd(s, i))

\* _do_pad that pads the sign together with the digits
_do_pad_SignCounted(groups, zfill) ==
    ZFill(groups[1] \o groups[2], zfill) \o groups[3]
        \o (IF groups[5] # <<>>
            THEN ZFill(groups[4] \o groups[5], zfill) ELSE groups[4])
        \o groups[6] \o groups[7]

\* _do_pad of padFrameRange: pad() of a str is str.zfill
_do_pad(groups, zfill) ==
    groups[1] \o ZFill(groups[2], zfill) \o groups[3] \o groups[4]
        \o (IF groups[5] # <<>> THEN ZFill(groups[5], zfill) ELSE <<>>)
        \o groups[6] \o groups[7]

\* _PAD_RE.sub(_do_pad, s) from position i on: the leftmost match is
\* replaced and the scan goes on after it; a character no match starts at
\* is copied
RECURSIVE PadSub(_, _, _)
PadSub(s, i, zfill) ==
    IF i > Len(s) THEN <<>>
    ELSE LET Replace(match) ==
                 IF match = None
                 THEN <<s[i]>> \o PadSub(s, i + 1, zfill)
                 ELSE _do_pad(Val(match).groups, zfill)
                          \o PadSub(s, Val(match).end, zfill)
         IN  Replace(_PAD_RE(s, i))

padFrameRange(frange, zfill) == PadSub(frange, 1, zfill)

frameRange(self, zfill) == padFrameRange(self.frange, zfill)

\* the loop of invertedFrameRange: for idx, frame in enumerate(frames[:-1]),
\* from position idx on (positions count from 1 here)
RECURSIVE InvertedLoop(_, _)
InvertedLoop(frames, idx) ==
    IF idx >= Len(frames) THEN <<>>
    ELSE (IF frames[idx + 1] - frames[idx] # 1
          THEN xrange(frames[idx] + 1, frames[idx + 1], 1) ELSE <<>>)
             \o InvertedLoop(frames, idx + 1)

\* invertedFrameRange that walks the frames in their order, not sorted
invertedFrameRange_Unsorted(self, zfill) ==
    LET Render(result) ==
            IF result = <<>> THEN <<>>
            ELSE framesToFrameRange(result, FALSE, zfill, FALSE)
    IN  Render(InvertedLoop(self.order, 1))

\* FrameSet.invertedFrameRange
invertedFrameRange(self, zfill) ==
    LET Render(result) ==
            IF result = <<>> THEN <<>>
            ELSE framesToFrameRange(result, FALSE, zfill, FALSE)
    IN  Render(InvertedLoop(sorted(SetIter(self.items)), 1))

\* TupleItem that takes no index below 0
TupleItem_NoNegative(t, index) ==
    IF 0 <= index /\ index < Len(t)
    THEN [kind |-> "int", value |-> t[index + 1]]
    ELSE [kind |-> "IndexError"]

\* t[index] of a tuple t: an index below 0 counts from the end, and an
\* index outside -len(t) .. len(t) - 1 raises IndexError
TupleItem(t, index) ==
    IF 0 <= index /\ index < Len(t)
    THEN [kind |-> "int", value |-> t[index + 1]]
    ELSE IF 0 - Len(t) <= index /\ index < 0
    THEN [kind |-> "int", value |-> t[Len(t) + index + 1]]
    ELSE [kind |-> "IndexError"]

\* FrameSet.frame
frame(self, index) == TupleItem(self.order, index)

\* FrameSet.__getitem__
__getitem__(self, index) == TupleItem(self.order, index)

(***************************************************************************)
(* Operands.  An operand is a FrameSet, a list of integers                 *)
(* ([kind |-> "list", frames |-> ...]) or an integer                       *)
(* ([kind |-> "int", value |-> ...]), which has no __iter__.               *)
(***************************************************************************)
NotImplemented == [kind |-> "NotImplemented"]

TypeError == [kind |-> "TypeError"]

Bool(b) == [kind |-> "bool", value |-> b]

\* hasattr(other, '__iter__')
HasIter(o) == o.kind \in {"FrameSet", "list"}

\* _cast_to_frameset that knows FrameSets only
_cast_to_frameset_FrameSetOnly(operand) ==
    IF operand.kind = "FrameSet" THEN operand ELSE NotImplemented

\* FrameSet._cast_to_frameset
_cast_to_frameset(operand) ==
    IF operand.kind = "FrameSet" THEN operand
    ELSE IF HasIter(operand) THEN from_iterable(operand.frames, FALSE)
    ELSE NotImplemented

\* set(other): the frames other yields when iterated (FrameSet.__iter__
\* yields the order)
SetOf(o) == IF o.kind = "FrameSet" THEN Range(o.order) ELSE Range(o.frames)

\* union, intersection and difference are called with one operand;
\* map(set, other) raises TypeError on an operand that is not iterable
union(self, o) ==
    IF ~HasIter(o) THEN TypeError
    ELSE from_iterable(SetIter(self.items \cup SetOf(o)), TRUE)

intersection(self, o) ==
    IF ~HasIter(o) THEN TypeError
    ELSE from_iterable(SetIter(self.items \cap SetOf(o)), TRUE)

difference(self, o) ==
    IF ~HasIter(o) THEN TypeError
    ELSE from_iterable(SetIter(self.items \ SetOf(o)), TRUE)

symmetric_difference(self, operand) ==
    LET Op(o) ==
            IF o.kind = "NotImplemented" THEN NotImplemented
            ELSE from_iterable(SetIter((self.items \ o.items)
                                           \cup (o.items \ self.items)), TRUE)
    IN  Op(_cast_to_frameset(operand))

__and__(self, operand) ==
    LET Op(o) ==
            IF o.kind = "NotImplemented" THEN NotImplemented
            ELSE from_iterable(SetIter(self.items \cap o.items), TRUE)
    IN  Op(_cast_to_frameset(operand))

__sub__(self, operand) ==
    LET Op(o) ==
            IF o.kind = "NotImplemented" THEN NotImplemented
            ELSE from_iterable(SetIter(self.items \ o.items), TRUE)
    IN  Op(_cast_to_frameset(operand))

__rsub__(self, operand) ==
    LET Op(o) ==
            IF o.kind = "NotImplemented" THEN NotImplemented
            ELSE from_iterable(SetIter(o.items \ self.items), TRUE)
    IN  Op(_cast_to_frameset(operand))

__or__(self, operand) ==
    LET Op(o) ==
            IF o.kind = "NotImplemented" THEN NotImplemented
            ELSE from_iterable(SetIter(self.items \cup o.items), TRUE)
    IN  Op(_cast_to_frameset(operand))

__xor__(self, operand) ==
    LET Op(o) ==
            IF o.kind = "NotImplemented" THEN NotImplemented
            ELSE from_iterable(SetIter((self.items \ o.items)
                                           \cup (o.items \ self.items)), TRUE)
    IN  Op(_cast_to_frameset(operand))

isdisjoint(self, operand) ==
    LET Op(o) ==
            IF o.kind = "NotImplemented" THEN NotImplemented
            ELSE Bool(self.items \cap o.items = {})
    IN  Op(_cast_to_frameset(operand))

issubset(self, operand) ==
    LET Op(o) ==
            IF o.kind = "NotImplemented" THEN NotImplemented
            ELSE Bool(self.items \subseteq o.items)
    IN  Op(_cast_to_frameset(operand))

issuperset(self, operand) ==
    LET Op(o) ==
            IF o.kind = "NotImplemented" THEN NotImplemented
            ELSE Bool(o.items \subseteq self.items)
    IN  Op(_cast_to_frameset(operand))

\* t < u of two tuples of integers: decided by the first position where
\* they differ, and by the lengths when one is a prefix of the other
RECURSIVE TupleLess(_, _)
TupleLess(t, u) ==
    IF t = <<>> THEN u # <<>>
    ELSE IF u = <<>> THEN FALSE
    ELSE IF t[1] # u[1] THEN t[1] < u[1]
    ELSE TupleLess(Tail(t), Tail(u))

\* a < b of two frozensets: a is a proper subset of b
SetLess(a, b) == a \subseteq b /\ a # b

\* __lt__ with <= on the items
__lt___SubsetOrEqual(self, operand) ==
    LET Op(o) ==
            IF o.kind = "NotImplemented" THEN NotImplemented
            ELSE Bool(self.items \subseteq o.items
                      \/ (self.items = o.items
                          /\ TupleLess(self.order, o.order)))
    IN  Op(_cast_to_frameset(operand))

__lt__(self, operand) ==
    LET Op(o) ==
            IF o.kind = "NotImplemented" THEN NotImplemented
            ELSE Bool(SetLess(self.items, o.items)
                      \/ (self.items = o.items
                          /\ TupleLess(self.order, o.order)))
    IN  Op(_cast_to_frameset(operand))

__gt__(self, operand) ==
    LET Op(o) ==
            IF o.kind = "NotImplemented" THEN NotImplemented
            ELSE Bool(SetLess(o.items, self.items)
                      \/ (self.items = o.items
                          /\ TupleLess(o.order, self.order)))
    IN  Op(_cast_to_frameset(operand))

\* hash() of a str, a frozenset and a tuple.  A hash value is kept as the
\* set of objects whose bits went into it: equal objects give equal hashes,
\* different objects give different ones, and | adds the bits of both sides.
HashStr(s) == [s |-> {s}, i |-> {}, o |-> {}]

HashItems(s) == [s |-> {}, i |-> {s}, o |-> {}]

HashOrder(t) == [s |-> {}, i |-> {}, o |-> {t}]

HashOr(a, b) == [s |-> a.s \cup b.s, i |-> a.i \cup b.i, o |-> a.o \cup b.o]

__hash__(self) ==
    HashOr(HashOr(HashStr(self.frange), HashItems(self.items)),
           HashOrder(self.order))

__eq__(self, operand) ==
    LET Op(o) ==
            LET this == HashOr(HashItems(self.items), HashOrder(self.order))
                that == HashOr(HashItems(o.items), HashOrder(o.order))
            IN  Bool(this = that)
    IN  IF ~HasIter(operand) THEN NotImplemented
        ELSE IF operand.kind = "FrameSet" THEN Op(operand)
        ELSE Op(from_iterable(operand.frames, FALSE))

(***************************************************************************)
(* FileSequence: _SPLITTER_RE (a run of range characters, then a run of    *)
(* padding characters), os.path.split, os.path.splitext, the constructor   *)
(* and the setters.  A setter gives the instance as the call leaves it     *)
(* (self) and what the call raised, if anything (raised).                  *)
(***************************************************************************)
\* [\:xy\-0-9,]
IsRangeChar(c) == c \in {":", "x", "y", "-", ","} \/ IsDigit(c)

\* [\#\@]
IsPadChar(c) == c \in {"#", "@"}

\* where the run of [\:xy\-0-9,] that ends right before position p starts
RunStart(s, p) ==
    CHOOSE i \in 1..p :
        /\ \A k \in i..(p - 1) : IsRangeChar(s[k])
        /\ i = 1 \/ ~IsRangeChar(s[i - 1])

\* where the run of [\#\@] that starts at position p ends
PadEnd(s, p) ==
    CHOOSE j \in p..Len(s) :
        /\ \A k \in p..j : IsPadChar(s[k])
        /\ j = Len(s) \/ ~IsPadChar(s[j + 1])

\* _SPLITTER_RE.split(s, 1): <<s>> without a match, else the text before
\* the leftmost match, its two groups and the text after it
_SPLITTER_RE_split(s) ==
    IF \A k \in 1..Len(s) : ~IsPadChar(s[k]) THEN <<s>>
    ELSE LET Parts(i, p, j) ==
                 <<SubSeq(s, 1, i - 1), SubSeq(s, i, p - 1),
                   SubSeq(s, p, j), SubSeq(s, j + 1, Len(s))>>
             At(p) == Parts(RunStart(s, p), p, PadEnd(s, p))
         IN  At(CHOOSE p \in 1..Len(s) :
                    IsPadChar(s[p]) /\ \A k \in 1..(p - 1) : ~IsPadChar(s[k]))

\* s.rfind(c), counting positions from 1, 0 when c is not in s
RFind(s, c) ==
    IF \A k \in 1..Len(s) : s[k] # c THEN 0
    ELSE CHOOSE i \in 1..Len(s) :
             s[i] = c /\ \A k \in (i + 1)..Len(s) : s[k] # c

RECURSIVE RStrip(_, _)
RStrip(s, c) ==
    IF s # <<>> /\ s[Len(s)] = c THEN RStrip(SubSeq(s, 1, Len(s) - 1), c)
    ELSE s

\* os.path.splitext(p): <<root, ext>>
splitext(p) ==
    LET Cut(sep, dot) ==
            IF dot > sep /\ \E k \in (sep + 1)..(dot - 1) : p[k] # "."
            THEN <<SubSeq(p, 1, dot - 1), SubSeq(p, dot, Len(p))>>
            ELSE <<p, <<>>>>
    IN  Cut(RFind(p, "/"), RFind(p, "."))

\* os.path.split(p): <<head, tail>>
split(p) ==
    LET Cut(head, tail) ==
            IF head # <<>> /\ \E k \in 1..Len(head) : head[k] # "/"
            THEN <<RStrip(head, "/"), tail>>
            ELSE <<head, tail>>
        At(i) == Cut(SubSeq(p, 1, i), SubSeq(p, i + 1, Len(p)))
    IN  At(RFind(p, "/"))

\* sum([_PADDING[c] for c in padding]), every c being a key of _PADDING
RECURSIVE SumPadding(_)
SumPadding(padding) ==
    IF padding = <<>> THEN 0
    ELSE _PADDING[padding[1]] + SumPadding(Tail(padding))

\* the part of FileSequence.__init__ after the sequence has been split
FileSequenceFields(filename, frame_ids, padding, extension) ==
    LET New(directory, basename, frameSet) ==
            IF frameSet.kind = "ParseException" THEN frameSet
            ELSE [kind |-> "FileSequence",
                  __dir |-> IF directory # <<>> THEN directory \o <<"/">>
                            ELSE <<>>,
                  __basename |-> basename,
                  __frameSet |-> frameSet,
                  __padding |-> padding,
                  __ext |-> extension,
                  __zfill |-> SumPadding(padding)]
        Dir(parts) ==
            New(parts[1], parts[2],
                IF frame_ids # <<>> THEN FrameSetInit(frame_ids)
                ELSE NoObject)
    IN  Dir(split(filename))

\* FileSequence(sequence): the new instance, or the ParseException raised
FileSequenceInit(sequence) ==
    LET Solitary(parts) == FileSequenceFields(parts[1], <<>>, <<>>, parts[2])
        Unpack(parts) ==
            IF Len(parts) = 4
            THEN FileSequenceFields(parts[1], parts[2], parts[3], parts[4])
            ELSE IF \E k \in 1..Len(sequence) : sequence[k] \in DOMAIN _PADDING
            THEN [kind |-> "ParseException",
                  msg |-> "Failed to parse FileSequence", part |-> sequence]
            ELSE Solitary(splitext(sequence))
    IN  Unpack(_SPLITTER_RE_split(sequence))

Done(self) == [self |-> self, raised |-> NoObject]

Raised(self, e) == [self |-> self, raised |-> e]

setDirname(self, dirname) == Done([self EXCEPT !.__dir = dirname])

setBasename(self, base) == Done([self EXCEPT !.__basename = base])

\* self.__padding is assigned before the sum looks the characters up
setPadding(self, padding) ==
    IF \A k \in 1..Len(padding) : padding[k] \in DOMAIN _PADDING
    THEN Done([self EXCEPT !.__padding = padding,
                           !.__zfill = SumPadding(padding)])
    ELSE Raised([self EXCEPT !.__padding = padding], KeyError)

setExtention(self, ext) ==
    IF ext = <<>> THEN Raised(self, [kind |-> "IndexError"])
    ELSE IF ext[1] # "." THEN Done([self EXCEPT !.__ext = <<".">> \o ext])
    ELSE Done([self EXCEPT !.__ext = ext])

setFrameSet(self, frameSet) == Done([self EXCEPT !.__frameSet = frameSet])

setFrameRange(self, frange) ==
    LET Set(frameSet) ==
            IF frameSet.kind = "ParseException" THEN Raised(self, frameSet)
            ELSE Done([self EXCEPT !.__frameSet = frameSet])
    IN  Set(FrameSetInit(frange))

(***************************************************************************)
(* Inputs.                                                                 *)
(***************************************************************************)
NoGen == [kind |-> "None"]

SeqsUpTo(S, n) == UNION {[1..k -> S] : k \in 0..n}

\* the characters of the raw constructor arguments of SpecParse
Alphabet == {"0", "1", "-", ",", "x", ":", "#"}

\* '1-100x5', '-3-5', '1-10x0'
ExampleTexts ==
    {<<"1", "-", "1", "0", "0", "x", "5">>, <<"-", "3", "-", "5">>,
     <<"1", "-", "1", "0", "x", "0">>}

RawTexts == SeqsUpTo(Alphabet, MaxStrLen) \cup ExampleTexts

\* the clauses of SpecClause
ClauseFrames == (0 - ClauseSpan)..(2 * ClauseSpan + 4)

Clauses ==
    [start : ClauseFrames, end : ClauseFrames, modifier : {<<>>},
     chunk : {1}]
    \cup [start : ClauseFrames, end : ClauseFrames,
          modifier : {<<"x">>, <<"y">>, <<":">>}, chunk : 1..MaxChunk]

\* the text 'start-end' or 'start-end<modifier><chunk>' of a clause
ClauseText(c) ==
    IntToStr(c.start) \o <<"-">> \o IntToStr(c.end) \o c.modifier
        \o (IF c.modifier = <<>> THEN <<>> ELSE NatToStr(c.chunk))

ClauseInputs ==
    {[kind |-> "str", text |-> ClauseText(c), clause |-> c] : c \in Clauses}

XfrangeInputs ==
    [kind : {"xfrange"}, start : ClauseFrames, stop : ClauseFrames,
     step : ((0 - MaxChunk)..MaxChunk) \ {0}]

\* the frame sequences handed to framesToFrameRange
SeqFrames == (0 - 1)..MaxSeqFrame

ExampleSeqs == {<<5, 9>>, <<5, 9, 13>>, <<1, 2, 5, 8>>}

CompressInputs ==
    [kind : {"frames"},
     frames : SeqsUpTo(SeqFrames, MaxSeqLen) \cup ExampleSeqs,
     sort : BOOLEAN, compress : BOOLEAN, zfill : 0..MaxSeqZfill]

(***************************************************************************)
(* The constructor and xfrange, called on an input.                        *)
(***************************************************************************)
\* fs = FrameSet(...) with the outcome r of the constructor: fs is bound to
\* the new instance, or the exception propagates and nothing is bound
Bind(r) ==
    IF r.kind = "FrameSet"
    THEN fs' = r /\ ret' = ret
    ELSE fs' = fs /\ ret' = r

\* fs = FrameSet(text)
Construct ==
    /\ op = "init"
    /\ input.kind = "str"
    /\ Bind(FrameSetInit(input.text))
    /\ op' = "__init__"
    /\ UNCHANGED <<seq, input, other, gen>>

\* list(xfrange(start, stop, step))
CallXfrange ==
    /\ op = "init"
    /\ input.kind = "xfrange"
    /\ ret' = [kind |-> "frames",
               value |-> xfrange(input.start, input.stop, input.step)]
    /\ op' = "xfrange"
    /\ UNCHANGED <<seq, input, fs, other, gen>>

(***************************************************************************)
(* framesToFrameRange, one iteration of the generator at a time, and the   *)
(* constructor applied to the string it returns.                           *)
(***************************************************************************)
\* framesToFrameRange up to the call of framesToFrameRanges
Call ==
    /\ op = "init"
    /\ input.kind = "frames"
    /\ LET Render(l) ==
               IF l = <<>>
               THEN ret' = [kind |-> "str", value |-> <<>>]
                    /\ op' = "done" /\ gen' = gen
               ELSE IF Len(l) = 1
               THEN ret' = [kind |-> "str", value |-> pad(l[1], input.zfill)]
                    /\ op' = "done" /\ gen' = gen
               ELSE ret' = ret /\ op' = "loop"
                    /\ gen' = GenStart(l, input.zfill)
       IN  Render(WorkList(input.frames, input.sort, input.compress))
    /\ UNCHANGED <<seq, input, fs, other>>

Iterate ==
    /\ op = "loop"
    /\ gen.idx <= Len(gen.frames)
    /\ gen' = LoopBody(gen)
    /\ UNCHANGED <<seq, input, fs, other, ret, op>>

\* the yields after the loop and ','.join
Finish ==
    /\ op = "loop"
    /\ gen.idx > Len(gen.frames)
    /\ gen' = AfterLoop(gen)
    /\ ret' = [kind |-> "str", value |-> Join(gen'.out, ",")]
    /\ op' = "done"
    /\ UNCHANGED <<seq, input, fs, other>>

\* FrameSet(result) on the string framesToFrameRange returned
Reparse ==
    /\ op = "done"
    /\ input.kind = "frames"
    /\ Bind(FrameSetInit(ret.value))
    /\ op' = "parsed"
    /\ UNCHANGED <<seq, input, other, gen>>

(***************************************************************************)
(* The FrameSet machine: one receiver fs, built from an input; a method    *)
(* is called on it with an operand other and its result is held in ret     *)
(* until FrameSet(ret) makes it the receiver.                              *)
(***************************************************************************)
Frames == (0 - 1)..MaxFrame

\* 'a' and 'a-b'
PlainTexts ==
    {IntToStr(a) : a \in Frames}
    \cup {ClauseText([start |-> a, end |-> b, modifier |-> <<>>,
                      chunk |-> 1]) : a \in Frames, b \in Frames}

ModifiedTexts ==
    {ClauseText(c) : c \in [start : Frames, end : Frames,
                           modifier : {<<"x">>, <<"y">>, <<":">>},
                           chunk : 1..2]}

\* '1-10x2', '0-2x2,-1-2:2', '1-5', '5-1', '-3-1x4'
ExampleRanges ==
    {<<"1", "-", "1", "0", "x", "2">>,
     <<"0", "-", "2", "x", "2", ",", "-", "1", "-", "2", ":", "2">>,
     <<"1", "-", "5">>, <<"5", "-", "1">>,
     <<"-", "3", "-", "1", "x", "4">>}

TextInputs ==
    [kind : {"str"},
     text : PlainTexts \cup ModifiedTexts \cup ExampleRanges
            \cup {t \o <<",">> \o u : t \in PlainTexts, u \in PlainTexts}
            \cup {<<>>, <<"#">>, <<"1", "-", "2", "@">>}]

IterInputs ==
    [kind : {"iter"}, frames : SeqsUpTo(Frames, MaxIterLen), sort : BOOLEAN]

\* the FrameSet operands: '', '1', '0-2', '0,1,2', '2-0', '1,0', '-1-2x3',
\* '5-1'
OtherTexts ==
    {<<>>, <<"1">>, <<"0", "-", "2">>, <<"0", ",", "1", ",", "2">>,
     <<"2", "-", "0">>, <<"1", ",", "0">>, <<"-", "1", "-", "2", "x", "3">>,
     <<"5", "-", "1">>}

Others == {FrameSetInit(t) : t \in OtherTexts}

\* the operands that are no FrameSet: the lists [2, 0] and [1, 1, 3], and 5
Operands ==
    Others
    \cup {[kind |-> "list", frames |-> <<2, 0>>],
          [kind |-> "list", frames |-> <<1, 1, 3>>],
          [kind |-> "int", value |-> 5]}

\* fs = FrameSet.from_iterable(frames, sort)
FromIterable ==
    /\ op = "init"
    /\ input.kind = "iter"
    /\ fs' = from_iterable(input.frames, input.sort)
    /\ op' = "from_iterable"
    /\ UNCHANGED <<seq, input, other, ret, gen>>

\* a receiver is bound and no result is pending
Ready == fs.kind = "FrameSet" /\ ret = NoObject

Returns(name, o, value) ==
    /\ other' = o
    /\ ret' = value
    /\ op' = name
    /\ UNCHANGED <<seq, input, fs, gen>>

Normalize == Ready /\ Returns("normalize", NoObject, normalize(fs))

Copy == Ready /\ Returns("copy", NoObject, copy(fs))

\* what is handed to __setstate__: the pickled state of self, the states
\* of the older generations of the class, and a state of no known type
States(self) ==
    {__getstate__(self),
     [kind |-> "str", value |-> self.frange],
     [kind |-> "dict",
      value |-> [__frange |-> self.frange, __set |-> self.items,
                 __list |-> self.order]],
     [kind |-> "dict",
      value |-> [_frange |-> self.frange, _items |-> self.items,
                 _order |-> self.order]],
     [kind |-> "int", value |-> 5]}

\* ret = FrameSet.__new__(FrameSet); ret.__setstate__(state)
SetState ==
    Ready /\ \E state \in States(fs) :
        Returns("__setstate__", state, __setstate__(state))

Union == Ready /\ \E o \in Operands : Returns("union", o, union(fs, o))

Intersection ==
    Ready /\ \E o \in Operands : Returns("intersection", o, intersection(fs, o))

Difference ==
    Ready /\ \E o \in Operands : Returns("difference", o, difference(fs, o))

SymmetricDifference ==
    Ready /\ \E o \in Operands :
        Returns("symmetric_difference", o, symmetric_difference(fs, o))

And == Ready /\ \E o \in Operands : Returns("__and__", o, __and__(fs, o))

Sub == Ready /\ \E o \in Operands : Returns("__sub__", o, __sub__(fs, o))

RSub == Ready /\ \E o \in Operands : Returns("__rsub__", o, __rsub__(fs, o))

Or == Ready /\ \E o \in Operands : Returns("__or__", o, __or__(fs, o))

Xor == Ready /\ \E o \in Operands : Returns("__xor__", o, __xor__(fs, o))

Eq ==
    Ready /\ \E o \in Operands :
        Returns("__eq__", o, __eq__(fs, o))

Hash ==
    Ready /\ Returns("__hash__", NoObject,
                     [kind |-> "hash", value |-> __hash__(fs)])

\* fs.invertedFrameRange()
\* fs.invertedFrameRange(zfill)
InvertedFrameRange ==
    Ready /\ \E zfill \in 0..MaxSeqZfill :
        Returns("invertedFrameRange", [kind |-> "int", value |-> zfill],
                [kind |-> "str", value |-> invertedFrameRange(fs, zfill)])

IsDisjoint ==
    Ready /\ \E o \in Operands : Returns("isdisjoint", o, isdisjoint(fs, o))

IsSubset ==
    Ready /\ \E o \in Operands : Returns("issubset", o, issubset(fs, o))

IsSuperset ==
    Ready /\ \E o \in Operands : Returns("issuperset", o, issuperset(fs, o))

Lt == Ready /\ \E o \in Operands : Returns("__lt__", o, __lt__(fs, o))

Gt == Ready /\ \E o \in Operands : Returns("__gt__", o, __gt__(fs, o))

Indexes == (0 - MaxIndex)..MaxIndex

\* fs.frame(index)
Frame ==
    Ready /\ \E index \in Indexes :
        Returns("frame", [kind |-> "int", value |-> index], frame(fs, index))

\* fs[index]
GetItem ==
    Ready /\ \E index \in Indexes :
        Returns("__getitem__", [kind |-> "int", value |-> index],
                __getitem__(fs, index))

\* fs.frameRange(zfill)
FrameRange ==
    Ready /\ \E zfill \in 0..MaxZfill :
        Returns("frameRange", [kind |-> "int", value |-> zfill],
                [kind |-> "str", value |-> frameRange(fs, zfill)])

\* fs = FrameSet(ret): __init__ on a FrameSet takes over its three slots
Adopt ==
    /\ ret.kind = "FrameSet"
    /\ fs' = ret
    /\ ret' = NoObject
    /\ other' = NoObject
    /\ input' = [kind |-> "FrameSet"]
    /\ op' = "__init__"
    /\ UNCHANGED <<seq, gen>>

(***************************************************************************)
(* Specifications.                                                         *)
(***************************************************************************)
InitWith(inputs) ==
    /\ input \in inputs
    /\ fs = NoObject
    /\ other = NoObject
    /\ ret = NoObject
    /\ op = "init"
    /\ gen = NoGen
    /\ seq = NoObject

\* the FrameSet machine
Init == InitWith(TextInputs \cup IterInputs)

Next ==
    \/ Construct \/ FromIterable \/ Adopt
    \/ Normalize \/ Copy \/ SetState
    \/ Union \/ Intersection \/ Difference \/ SymmetricDifference
    \/ And \/ Sub \/ RSub \/ Or \/ Xor
    \/ Eq \/ Hash
    \/ InvertedFrameRange \/ Frame \/ GetItem
    \/ IsDisjoint \/ IsSubset \/ IsSuperset \/ Lt \/ Gt

Spec == Init /\ [][Next]_vars

\* the constructor on raw text, and frameRange on what it accepts
InitParse == InitWith([kind : {"str"}, text : RawTexts])

NextParse == Construct \/ FrameRange

SpecParse == InitParse /\ [][NextParse]_vars

\* the constructor on one clause, and xfrange
InitClause == InitWith(ClauseInputs \cup XfrangeInputs)

NextClause == Construct \/ CallXfrange

SpecClause == InitClause /\ [][NextClause]_vars

\* the run compressor
InitCompress == InitWith(CompressInputs)

NextCompress == Call \/ Iterate \/ Finish \/ Reparse

SpecCompress == InitCompress /\ [][NextCompress]_vars

\* the FrameSet machine and the run compressor side by side
InitAll == InitWith(TextInputs \cup IterInputs \cup CompressInputs)

NextAll == Next \/ NextCompress

SpecAll == InitAll /\ [][NextAll]_vars

\* the arguments of FileSequence(sequence): '/d/a.1-3#.e', 'a.1@@.e',
\* 'a.e', '/d/a', 'a.-#.e', '#', 'a#@', '1,2#', '.a', '', '/#', 'a.3x#@#'
SequenceTexts ==
    {<<"/", "d", "/", "a", ".", "1", "-", "3", "#", ".", "e">>,
     <<"a", ".", "1", "@", "@", ".", "e">>, <<"a", ".", "e">>,
     <<"/", "d", "/", "a">>, <<"a", ".", "-", "#", ".", "e">>, <<"#">>,
     <<"a", "#", "@">>, <<"1", ",", "2", "#">>, <<".", "a">>, <<>>,
     <<"/", "#">>, <<"a", ".", "3", "x", "#", "@", "#">>}

SequenceInputs == [kind : {"sequence"}, text : SequenceTexts]

\* the arguments of setPadding: '', '#', '@@', '#@', 'x', '#x'
Paddings ==
    {<<>>, <<"#">>, <<"@", "@">>, <<"#", "@">>, <<"x">>, <<"#", "x">>}

\* the arguments of setFrameRange: '1-3', '', '1x', '5#'
FrameRanges ==
    {<<"1", "-", "3">>, <<>>, <<"1", "x">>, <<"5", "#">>}

\* the arguments of setFrameSet: None and FrameSet('2')
FrameSets == {NoObject, FrameSetInit(<<"2">>)}

\* the arguments of setExtention: '', 'e', '.e'
Extensions == {<<>>, <<"e">>, <<".", "e">>}

Str(s) == [kind |-> "str", value |-> s]

\* seq = FileSequence(input.text)
ConstructSeq ==
    /\ op = "init"
    /\ input.kind = "sequence"
    /\ LET BindSeq(r) ==
               IF r.kind = "FileSequence"
               THEN seq' = r /\ ret' = ret
               ELSE seq' = seq /\ ret' = r
       IN  BindSeq(FileSequenceInit(input.text))
    /\ op' = "FileSequence"
    /\ UNCHANGED <<input, fs, other, gen>>

Constructed == seq.kind = "FileSequence"

\* the call name(arg) on seq: what it leaves of seq and what it raised
Applies(name, arg, r) ==
    /\ seq' = r.self
    /\ ret' = r.raised
    /\ op' = name
    /\ other' = arg
    /\ UNCHANGED <<input, fs, gen>>

SetDirname ==
    Constructed /\ Applies("setDirname", Str(<<"/", "e", "/">>),
                           setDirname(seq, <<"/", "e", "/">>))

SetBasename ==
    Constructed /\ Applies("setBasename", Str(<<"b", ".">>),
                           setBasename(seq, <<"b", ".">>))

SetPadding ==
    Constructed /\ \E padding \in Paddings :
        Applies("setPadding", Str(padding), setPadding(seq, padding))

SetExtention ==
    Constructed /\ \E ext \in Extensions :
        Applies("setExtention", Str(ext), setExtention(seq, ext))

SetFrameSet ==
    Constructed /\ \E frameSet \in FrameSets :
        Applies("setFrameSet", frameSet, setFrameSet(seq, frameSet))

SetFrameRange ==
    Constructed /\ \E frange \in FrameRanges :
        Applies("setFrameRange", Str(frange), setFrameRange(seq, frange))

\* the FileSequence machine
InitSeq == InitWith(SequenceInputs)

NextSeq ==
    \/ ConstructSeq
    \/ SetDirname \/ SetBasename \/ SetPadding \/ SetExtention
    \/ SetFrameSet \/ SetFrameRange

SpecSeq == InitSeq /\ [][NextSeq]_vars

(***************************************************************************)
(* Properties of the run compressor (SpecCompress).                        *)
(***************************************************************************)
\* C1: parsing the string framesToFrameRange(seq, sort, compress) returns
\* yields a FrameSet whose members are exactly the integers of seq, for
\* every seq and every choice of sort and compress.
C1_CompressionLossless ==
    op = "parsed" =>
        /\ ret.kind = "str"
        /\ fs.kind = "FrameSet"
        /\ fs.items = Range(input.frames)

\* a token with a '-' that is not the sign of its first number
IsRangeToken(tok) == \E i \in 2..Len(tok) : tok[i] = "-"

SingleToken(f, zfill) == pad(f, zfill)

RunToken(a, b, n, zfill) ==
    pad(a, zfill) \o <<"-">> \o pad(b, zfill)
        \o (IF n = 1 THEN <<>> ELSE <<"x">> \o NatToStr(n))

\* the frames at positions lo..hi of frames are n apart, one after another
ConstantStride(frames, lo, hi, n) ==
    \A i \in lo..(hi - 1) : Abs(frames[i + 1] - frames[i]) = n

Text_5_9 == <<"5", ",", "9">>

Text_5_13x4 == <<"5", "-", "1", "3", "x", "4">>

\* C3 as stated, on the first run of the input (the run that starts at the
\* first frame whatever was flushed before): when the third frame breaks
\* the stride of the first two, the run ends with exactly 2 members and
\* both of its frames are emitted as standalone single-frame tokens; also
\* [5, 9] gives '5,9' and [5, 9, 13] gives '5-13x4'.
C3_PairFramesStandalone ==
    (op = "done" /\ gen # NoGen) =>
        LET f == gen.frames
        IN  /\ (Len(f) >= 3 /\ Abs(f[3] - f[2]) # Abs(f[2] - f[1])) =>
                  /\ \E k \in 1..Len(gen.out) :
                         gen.out[k] = SingleToken(f[1], gen.zfill)
                  /\ \E k \in 1..Len(gen.out) :
                         gen.out[k] = SingleToken(f[2], gen.zfill)
            /\ (input.frames = <<5, 9>> /\ input.zfill = 0) =>
                   ret.value = Text_5_9
            /\ (input.frames = <<5, 9, 13>> /\ input.zfill = 0) =>
                   ret.value = Text_5_13x4

\* C3 (amended): in every step of the generator, (1) a token with a range
\* comes from a run of at least 3 consecutive input frames whose successive
\* differences all have the magnitude N of the token, (2) a run of exactly 2
\* members broken by a stride mismatch yields its first frame as a
\* standalone token (the second frame opens the next run), (3) a run of
\* exactly 2 members at the end of the input yields both frames as
\* standalone tokens; [5, 9] gives '5,9' and [5, 9, 13] gives '5-13x4'.
C3_PairTieBreak ==
    [][op = "loop" =>
        LET f   == gen.frames
            i   == gen.idx
            c   == gen.curr_count
            new == SubSeq(gen'.out, Len(gen.out) + 1, Len(gen'.out))
        IN  /\ \A k \in 1..Len(new) :
                  IsRangeToken(new[k]) =>
                      /\ c >= 3
                      /\ i - c >= 1
                      /\ \E n \in 1..(Abs(f[i - 1] - f[i - c])) :
                            /\ ConstantStride(f, i - c, i - 1, n)
                            /\ new[k] = RunToken(f[i - c], f[i - 1], n,
                                                 gen.zfill)
            /\ (/\ i <= Len(f)
                /\ c = 2
                /\ Abs(f[i] - f[i - 1]) # Abs(f[i - 1] - f[i - 2]))
                   => new = <<SingleToken(f[i - 2], gen.zfill)>>
            /\ (i > Len(f) /\ c = 2) =>
                   new = <<SingleToken(f[i - 2], gen.zfill),
                           SingleToken(f[i - 1], gen.zfill)>>
            /\ (op' = "done" /\ input.frames = <<5, 9>> /\ input.zfill = 0) =>
                   ret'.value = Text_5_9
            /\ (op' = "done" /\ input.frames = <<5, 9, 13>>
                    /\ input.zfill = 0) =>
                   ret'.value = Text_5_13x4
      ]_vars

\* a broken pair followed by a stride token: '<a>,<b>-<c>x<n>'
C3_Witness ==
    /\ op = "done"
    /\ gen # NoGen
    /\ ~input.sort
    /\ Len(gen.frames) = 4
    /\ Len(gen.out) = 2
    /\ ~IsRangeToken(gen.out[1])
    /\ IsRangeToken(gen.out[2])
    /\ \E i \in 1..Len(gen.out[2]) : gen.out[2][i] = "x"

(***************************************************************************)
(* Properties of the constructor on raw text (SpecParse).                  *)
(***************************************************************************)
AllDigits(s) == \A i \in 1..Len(s) : IsDigit(s[i])

\* UINT
GrammarUInt(s) == Len(s) >= 1 /\ AllDigits(s)

\* INT: UINT with an optional leading '-'
GrammarInt(s) ==
    \/ GrammarUInt(s)
    \/ Len(s) >= 2 /\ s[1] = "-" /\ GrammarUInt(Tail(s))

\* the splits of s as INT '-' INT MODIFIER UINT: <<i, j>> with the '-' at i
\* and the modifier at j
ChunkSplits(s) ==
    {ij \in (1..Len(s)) \X (1..Len(s)) :
        /\ ij[1] < ij[2]
        /\ s[ij[1]] = "-"
        /\ s[ij[2]] \in {"x", "y", ":"}
        /\ GrammarInt(SubSeq(s, 1, ij[1] - 1))
        /\ GrammarInt(SubSeq(s, ij[1] + 1, ij[2] - 1))
        /\ GrammarUInt(SubSeq(s, ij[2] + 1, Len(s)))}

\* clause := INT ( '-' INT ( MODIFIER UINT )? )?
GrammarClause(s) ==
    \/ GrammarInt(s)
    \/ \E i \in 1..Len(s) :
          /\ s[i] = "-"
          /\ GrammarInt(SubSeq(s, 1, i - 1))
          /\ GrammarInt(SubSeq(s, i + 1, Len(s)))
    \/ ChunkSplits(s) # {}

\* the clause has a chunk and the chunk is 0
ZeroChunk(s) ==
    \E ij \in ChunkSplits(s) :
        \A k \in (ij[2] + 1)..Len(s) : s[k] = "0"

WithoutPaddingChars(s) == SelectSeq(s, LAMBDA c : c # "#" /\ c # "@")

\* the non-empty clauses of t: its maximal comma-free pieces
ClausesOf(t) ==
    {SubSeq(t, i, j) : <<i, j>> \in
        {ij \in (1..Len(t)) \X (1..Len(t)) :
            /\ ij[1] <= ij[2]
            /\ \A k \in ij[1]..ij[2] : t[k] # ","
            /\ (ij[1] = 1 \/ t[ij[1] - 1] = ",")
            /\ (ij[2] = Len(t) \/ t[ij[2] + 1] = ",")}}

Min(a, b) == IF a <= b THEN a ELSE b

Max(a, b) == IF a <= b THEN b ELSE a

\* every integer of the inclusive span between a and b
Span(a, b) == Min(a, b)..Max(a, b)

IsPrefix(p, q) == Len(p) <= Len(q) /\ SubSeq(q, 1, Len(p)) = p

\* 'start-endxN,start-endx(N-1),...,start-endx2,start-end'
RECURSIVE StaggerExpansion(_, _)
StaggerExpansion(c, n) ==
    IF n <= 1 THEN ClauseText([c EXCEPT !.modifier = <<>>, !.chunk = 1])
    ELSE ClauseText([c EXCEPT !.modifier = <<"x">>, !.chunk = n])
             \o <<",">> \o StaggerExpansion(c, n - 1)

ParsedClause(m) == op = "__init__" /\ "clause" \in DOMAIN input
                       /\ input.clause.modifier = m

\* C8: 'start-end:N' has the members and the order of
\* 'start-endxN,...,start-endx2,start-end': the frames of stride N come
\* first, and the members are every integer of the span start..end.
C8_StaggerIsUnionOfStrides ==
    ParsedClause(<<":">>) =>
        LET c == input.clause
            e == FrameSetInit(StaggerExpansion(c, c.chunk))
            x == FrameSetInit(ClauseText([c EXCEPT !.modifier = <<"x">>]))
        IN  /\ fs.kind = "FrameSet"
            /\ fs.items = e.items
            /\ fs.order = e.order
            /\ IsPrefix(x.order, fs.order)
            /\ fs.items = Span(c.start, c.end)

C8_Witness ==
    /\ ParsedClause(<<":">>)
    /\ input.clause.chunk = 3
    /\ input.clause.start = 1
    /\ input.clause.end = 8
    /\ fs.order = <<1, 4, 7, 3, 5, 2, 6, 8>>

Text_1_10_s2 == <<"1", "-", "1", "0", ":", "2">>

\* C18 as stated: '1-10:2' has the members 1..10 and an order that begins
\* with the even frames 2, 4, 6, 8, 10.
C18_StaggerBeginsWithEvens ==
    (ParsedClause(<<":">>) /\ input.text = Text_1_10_s2) =>
        /\ fs.kind = "FrameSet"
        /\ fs.items = 1..10
        /\ IsPrefix(<<2, 4, 6, 8, 10>>, fs.order)

\* C18 (amended): '1-10:2' has the members 1..10 and an order that begins
\* with the frames of stride 2 counted from the start, the odd frames
\* 1, 3, 5, 7, 9, followed by the even frames not yet seen.
C18_StaggerBeginsAtStart ==
    (ParsedClause(<<":">>) /\ input.text = Text_1_10_s2) =>
        /\ fs.kind = "FrameSet"
        /\ fs.items = 1..10
        /\ IsPrefix(<<1, 3, 5, 7, 9>>, fs.order)
        /\ fs.order = <<1, 3, 5, 7, 9, 2, 4, 6, 8, 10>>

\* '1-10:2' has been parsed
C18_Witness ==
    /\ ParsedClause(<<":">>)
    /\ input.text = Text_1_10_s2
    /\ fs.kind = "FrameSet"
    /\ Len(fs.order) = 10
    /\ fs.order[1] = 1

Text_5_m1 == <<"5", "-", "-", "1">>

Text_m4_m2 == <<"-", "4", "-", "-", "2">>

\* C9: xfrange(start, stop, step), step # 0, yields start, start +- |step|,
\* ... towards stop, exactly the values that do not pass stop, the same for
\* step and -step; 'a-b' is every integer from a to b in that direction
\* and 'a-bxN' starts with a and never leaves the span a..b.
C9_XfrangeInclusive ==
    /\ op = "xfrange" =>
          LET a == input.start
              b == input.stop
              m == Abs(input.step)
              d == IF a <= b THEN 1 ELSE -1
              v == ret.value
              n == Len(v)
          IN  /\ n >= 1
              /\ \A k \in 1..n : v[k] = a + d * (k - 1) * m
              /\ \A k \in 1..n : v[k] \in Span(a, b)
              /\ (a + d * n * m) \notin Span(a, b)
              /\ v = xfrange(a, b, -input.step)
    /\ ParsedClause(<<>>) =>
          LET a == input.clause.start
              b == input.clause.end
              d == IF a <= b THEN 1 ELSE -1
          IN  /\ fs.kind = "FrameSet"
              /\ fs.order = [k \in 1..(Abs(b - a) + 1) |-> a + d * (k - 1)]
    /\ ParsedClause(<<"x">>) =>
          /\ fs.kind = "FrameSet"
          /\ fs.order[1] = input.clause.start
          /\ fs.items \subseteq Span(input.clause.start, input.clause.end)
    /\ (op = "__init__" /\ input.text = Text_5_m1) =>
          fs.order = <<5, 4, 3, 2, 1, 0, -1>>
    /\ (op = "__init__" /\ input.text = Text_m4_m2) =>
          fs.order = <<-4, -3, -2>>

\* a descending call with a positive step that stops short of stop
C9_Witness ==
    /\ op = "xfrange"
    /\ input.start > input.stop
    /\ input.step > 1
    /\ Len(ret.value) >= 3
    /\ ret.value[Len(ret.value)] # input.stop

StrictlyMonotone(q, d) ==
    \A k \in 1..(Len(q) - 1) : d * (q[k + 1] - q[k]) > 0

Text_1_10y2 == <<"1", "-", "1", "0", "y", "2">>

\* C10: the members of 'start-endyN' and of 'start-endxN' are disjoint and
\* together are every integer of the span start..end; the order of
\* 'start-endyN' runs in the direction from start to end.
C10_FillIsComplementOfStride ==
    ParsedClause(<<"y">>) =>
        LET c == input.clause
            x == FrameSetInit(ClauseText([c EXCEPT !.modifier = <<"x">>]))
            d == IF c.start <= c.end THEN 1 ELSE -1
        IN  /\ fs.kind = "FrameSet"
            /\ fs.items \cap x.items = {}
            /\ fs.items \cup x.items = Span(c.start, c.end)
            /\ StrictlyMonotone(fs.order, d)
            /\ input.text = Text_1_10y2 => fs.order = <<2, 4, 6, 8, 10>>

C10_Witness ==
    /\ ParsedClause(<<"y">>)
    /\ input.text = Text_1_10y2
    /\ fs.order = <<2, 4, 6, 8, 10>>

(***************************************************************************)
(* Properties of the FrameSet machine (Spec).                              *)
(***************************************************************************)
Ascending(q) == \A k \in 1..(Len(q) - 1) : q[k] < q[k + 1]

WellFormed(f) ==
    f.kind = "FrameSet" =>
        /\ f.items = Range(f.order)
        /\ Len(f.order) = Cardinality(f.items)

\* C2: every FrameSet, however it was made (parsed, from_iterable,
\* normalize, copy, the algebra), has members = set(order) and
\* len(order) = len(members).
C2_MembersAreOrder == WellFormed(fs) /\ WellFormed(other) /\ WellFormed(ret)

Text_2_0_1_2 == <<"2", "-", "0", ",", "1", "-", "2">>

\* '2-0,1-2': the second clause repeats frames of the first
C2_Witness ==
    /\ op = "__init__"
    /\ input.kind = "str"
    /\ input.text = Text_2_0_1_2
    /\ fs.order = <<2, 1, 0>>

SymDiff(a, b) == (a \ b) \cup (b \ a)

SortedResult(f, members) ==
    /\ f.kind = "FrameSet"
    /\ f.items = members
    /\ Range(f.order) = members
    /\ Ascending(f.order)

\* C4: union, intersection, difference and symmetric_difference (and the
\* operators & - | ^) return a FrameSet whose members are the plain set
\* operation on the operands' members and whose order is ascending.
C4_AlgebraIsSortedSetAlgebra ==
    other.kind = "FrameSet" =>
    /\ op \in {"union", "__or__"} =>
          SortedResult(ret, fs.items \cup other.items)
    /\ op \in {"intersection", "__and__"} =>
          SortedResult(ret, fs.items \cap other.items)
    /\ op \in {"difference", "__sub__"} =>
          SortedResult(ret, fs.items \ other.items)
    /\ op = "__rsub__" => SortedResult(ret, other.items \ fs.items)
    /\ op \in {"symmetric_difference", "__xor__"} =>
          SortedResult(ret, SymDiff(fs.items, other.items))

\* a union of two FrameSets that are both in descending order
C4_Witness ==
    /\ op = "union"
    /\ other.kind = "FrameSet"
    /\ Len(fs.order) >= 2
    /\ fs.order[1] > fs.order[2]
    /\ Len(other.order) >= 2
    /\ other.order[1] > other.order[2]
    /\ Len(ret.order) >= 3
    /\ ret.items # fs.items

\* C5: normalize(x) has the members of x in ascending order, and
\* normalizing it again gives the same members, order and range string,
\* and a FrameSet that compares equal.
C5_NormalizeIdempotent ==
    op = "normalize" =>
        /\ SortedResult(ret, fs.items)
        /\ LET again == normalize(ret)
           IN  /\ again.kind = "FrameSet"
               /\ again.items = ret.items
               /\ again.order = ret.order
               /\ again.frange = ret.frange
               /\ __eq__(again, ret) = Bool(TRUE)

\* normalize of a FrameSet that is not in ascending order
C5_Witness ==
    /\ op = "normalize"
    /\ Len(fs.order) >= 3
    /\ ~Ascending(fs.order)
    /\ ret.kind = "FrameSet"
    /\ ret.order # fs.order
    /\ ret.frange # fs.frange

\* C6: two FrameSets with the same members and the same order compare
\* equal and have the same hash, whatever range strings they were built
\* from.
C6_EqualImpliesSameHash ==
    (/\ op = "__eq__"
     /\ other.kind = "FrameSet"
     /\ fs.items = other.items
     /\ fs.order = other.order) =>
        /\ ret = Bool(TRUE)
        /\ __hash__(fs) = __hash__(other)


\* the frames of q, each at its first occurrence only
RECURSIVE FirstOccurrences(_)
FirstOccurrences(q) ==
    IF q = <<>> THEN <<>>
    ELSE LET r == FirstOccurrences(SubSeq(q, 1, Len(q) - 1))
         IN  IF q[Len(q)] \in Range(r) THEN r ELSE Append(r, q[Len(q)])

RECURSIVE Concat(_)
Concat(qs) == IF qs = <<>> THEN <<>> ELSE qs[1] \o Concat(Tail(qs))

\* the expansion of one clause, repeats included: the stride for 'x', the
\* strides chunk, chunk - 1, ..., 1 one after another for ':', every frame
\* of the span outside the stride for 'y', every frame of the span otherwise
ClauseExpansion(c) ==
    LET p == _parse_frange_part(c)
    IN  IF p.modifier = <<"x">> THEN xfrange(p.start, p.end, p.chunk)
        ELSE IF p.modifier = <<":">>
        THEN Concat([k \in 1..p.chunk |->
                        xfrange(p.start, p.end, p.chunk + 1 - k)])
        ELSE IF p.modifier = <<"y">>
        THEN SelectSeq(xfrange(p.start, p.end, 1),
                       LAMBDA f : (f - p.start) % p.chunk # 0)
        ELSE xfrange(p.start, p.end, 1)

\* the non-empty clauses of a text, in textual order
ClauseSeq(text) ==
    SelectSeq(Split(WithoutPaddingChars(text), ","), LAMBDA c : c # <<>>)

\* C11: the order of a parsed range string is the concatenation of the
\* expansions of its clauses in textual order, each frame kept at its first
\* occurrence only; the order of the first k clauses is a prefix of the order
\* of the whole string, so a later clause moves no frame of an earlier one.
C11_FirstOccurrenceWins ==
    (op = "__init__" /\ input.kind = "str" /\ fs.kind = "FrameSet") =>
        LET cs == ClauseSeq(input.text)
        IN  /\ fs.order = FirstOccurrences(
                   Concat([k \in 1..Len(cs) |-> ClauseExpansion(cs[k])]))
            /\ \A k \in 1..Len(cs) :
                   IsPrefix(FrameSetInit(Join(SubSeq(cs, 1, k), ",")).order,
                            fs.order)

Text_0_2_2_m1 == <<"0", "-", "2", ",", "2", "-", "-", "1">>

\* '0-2,2--1': of the second clause 2,1,0,-1 only -1 is new
C11_Witness ==
    /\ op = "__init__"
    /\ input.kind = "str"
    /\ input.text = Text_0_2_2_m1
    /\ fs.order = <<0, 1, 2, -1>>


(***************************************************************************)
(* Properties of frameRange on the accepted raw texts (SpecParse).         *)
(***************************************************************************)
\* the digits d filled with zeros on the left up to w digits
ZeroFilled(d, w) == [k \in 1..(Max(w, Len(d)) - Len(d)) |-> "0"] \o d

\* an INT literal with its digits zero-filled, the sign kept in front
PaddedInt(lit, w) ==
    IF lit[1] = "-" THEN <<"-">> \o ZeroFilled(Tail(lit), w)
    ELSE ZeroFilled(lit, w)

\* a clause of the grammar with its start and end literals zero-filled
PaddedClause(c, w) ==
    IF c = <<>> THEN <<>>
    ELSE IF GrammarInt(c) THEN PaddedInt(c, w)
    ELSE IF ChunkSplits(c) # {}
    THEN LET ij == CHOOSE ij \in ChunkSplits(c) : TRUE
         IN  PaddedInt(SubSeq(c, 1, ij[1] - 1), w) \o <<"-">>
                 \o PaddedInt(SubSeq(c, ij[1] + 1, ij[2] - 1), w)
                 \o SubSeq(c, ij[2], Len(c))
    ELSE LET i == CHOOSE i \in 1..Len(c) :
                      /\ c[i] = "-"
                      /\ GrammarInt(SubSeq(c, 1, i - 1))
                      /\ GrammarInt(SubSeq(c, i + 1, Len(c)))
         IN  PaddedInt(SubSeq(c, 1, i - 1), w) \o <<"-">>
                 \o PaddedInt(SubSeq(c, i + 1, Len(c)), w)

Text_1_100 == <<"1", "-", "1", "0", "0">>

Text_1_100x5 == <<"1", "-", "1", "0", "0", "x", "5">>

Text_m3_5 == <<"-", "3", "-", "5">>

\* C12: for every accepted range string and every width w, frameRange(w)
\* fills the digits of each start and end literal with zeros up to w digits,
\* keeps a minus sign in front without counting it, and leaves the commas,
\* the '-' separator, the modifier and the chunk as they are; '1-100' at 5
\* is '00001-00100', '1-100x5' at 5 is '00001-00100x5', '-3-5' at 3 is
\* '-003-005'.
C12_PaddingKeepsSignAndChunk ==
    op = "frameRange" =>
        LET w  == other.value
            cs == Split(fs.frange, ",")
        IN  /\ ret.value =
                   Join([k \in 1..Len(cs) |-> PaddedClause(cs[k], w)], ",")
            /\ (fs.frange = Text_1_100 /\ w = 5) =>
                   ret.value = <<"0", "0", "0", "0", "1", "-",
                                 "0", "0", "1", "0", "0">>
            /\ (fs.frange = Text_1_100x5 /\ w = 5) =>
                   ret.value = <<"0", "0", "0", "0", "1", "-",
                                 "0", "0", "1", "0", "0", "x", "5">>
            /\ (fs.frange = Text_m3_5 /\ w = 3) =>
                   ret.value = <<"-", "0", "0", "3", "-", "0", "0", "5">>

\* '-3-5' at width 3
C12_Witness ==
    /\ op = "frameRange"
    /\ fs.frange = Text_m3_5
    /\ other.value = 3
    /\ ret.value = <<"-", "0", "0", "3", "-", "0", "0", "5">>


(***************************************************************************)
(* Properties of the other methods of the FrameSet machine (Spec).         *)
(***************************************************************************)
SetMin(s) == CHOOSE x \in s : \A y \in s : x <= y

SetMax(s) == CHOOSE x \in s : \A y \in s : y <= x

\* the integers strictly between the least and the greatest member of s
\* that are not in s
Gaps(s) == IF s = {} THEN {} ELSE (SetMin(s)..SetMax(s)) \ s

Text_1_10x2 == <<"1", "-", "1", "0", "x", "2">>

\* C13: invertedFrameRange() returns a range string whose frames are exactly
\* the integers strictly between the least and the greatest member that are
\* not members; it is '' when there is none; for '1-10x2' it is '2-8x2'.
C13_InvertedRangeIsTheGaps ==
    op = "invertedFrameRange" =>
        /\ ret.kind = "str"
        /\ FrameSetInit(ret.value).kind = "FrameSet"
        /\ FrameSetInit(ret.value).items = Gaps(fs.items)
        /\ Gaps(fs.items) = {} => ret.value = <<>>
        /\ (fs.frange = Text_1_10x2 /\ other.value = 0) =>
               ret.value = <<"2", "-", "8", "x", "2">>

\* a receiver whose order is not ascending and that has a gap
C13_Witness ==
    /\ op = "invertedFrameRange"
    /\ ~Ascending(fs.order)
    /\ Gaps(fs.items) # {}
    /\ ret.value # <<>>


\* C14 as stated: frame(i) and fs[i] return order[i] for 0 <= i < len(order)
\* and fail with IndexError for every other i, every negative i included;
\* the receiver is unchanged by the call.
C14_IndexErrorOutsideZeroToLen ==
    [][op' \in {"frame", "__getitem__"} =>
        LET i == other'.value
        IN  /\ (0 <= i /\ i < Len(fs.order)) =>
                   ret' = [kind |-> "int", value |-> fs.order[i + 1]]
            /\ ~(0 <= i /\ i < Len(fs.order)) => ret'.kind = "IndexError"
            /\ fs' = fs
      ]_vars

\* C14 (amended): frame(i) and fs[i] return order[i] for 0 <= i < len(order)
\* and order[len(order) + i] for -len(order) <= i < 0; they fail with
\* IndexError for every other i; the receiver is unchanged by the call.
C14_IndexCountsFromEitherEnd ==
    [][op' \in {"frame", "__getitem__"} =>
        LET i == other'.value
            n == Len(fs.order)
        IN  /\ (0 <= i /\ i < n) =>
                   ret' = [kind |-> "int", value |-> fs.order[i + 1]]
            /\ (0 - n <= i /\ i < 0) =>
                   ret' = [kind |-> "int", value |-> fs.order[n + i + 1]]
            /\ (i >= n \/ i < 0 - n) => ret'.kind = "IndexError"
            /\ fs' = fs
      ]_vars

\* frame(-1) of a FrameSet of at least 2 frames is its last frame
C14_Witness ==
    /\ op = "frame"
    /\ other.value = -1
    /\ Len(fs.order) >= 2
    /\ ret.kind = "int"
    /\ ret.value = fs.order[Len(fs.order)]


\* the members an operand stands for: those of a FrameSet, the integers of
\* a list
Members(o) == IF o.kind = "FrameSet" THEN o.items ELSE Range(o.frames)

CastingOps ==
    {"symmetric_difference", "isdisjoint", "issubset", "issuperset",
     "__and__", "__sub__", "__rsub__", "__or__", "__xor__"}

SetCallOps == {"union", "intersection", "difference"}

\* what the operation named name gives for the member sets a and b
Expected(name, a, b, result) ==
    CASE name \in {"union", "__or__"} -> SortedResult(result, a \cup b)
      [] name \in {"intersection", "__and__"} -> SortedResult(result, a \cap b)
      [] name \in {"difference", "__sub__"} -> SortedResult(result, a \ b)
      [] name = "__rsub__" -> SortedResult(result, b \ a)
      [] name \in {"symmetric_difference", "__xor__"} ->
             SortedResult(result, SymDiff(a, b))
      [] name = "isdisjoint" -> result = Bool(a \cap b = {})
      [] name = "issubset" -> result = Bool(a \subseteq b)
      [] name = "issuperset" -> result = Bool(b \subseteq a)

LexLess(t, u) ==
    \E k \in 1..Len(u) :
        /\ \A j \in 1..(k - 1) : j <= Len(t) /\ t[j] = u[j]
        /\ (k > Len(t) \/ t[k] < u[k])

\* a.members is a proper subset of b.members, or the members are the same
\* and a.order is lexicographically less than b.order
Below(a, b) ==
    \/ (a.items \subseteq b.items /\ a.items # b.items)
    \/ (a.items = b.items /\ LexLess(a.order, b.order))

Text_1_5 == <<"1", "-", "5">>

Text_5_1 == <<"5", "-", "1">>

\* C16: a < b holds exactly when a.members is a proper subset of b.members,
\* or the members are equal and a.order is lexicographically less than
\* b.order; a > b holds exactly when b < a; a < b and b < a never hold
\* together; FrameSet('1-5') < FrameSet('5-1').
C16_OrderingBySubsetThenOrder ==
    other.kind = "FrameSet" =>
        /\ op = "__lt__" =>
               /\ ret = Bool(Below(fs, other))
               /\ ret = Bool(TRUE) => __lt__(other, fs) = Bool(FALSE)
               /\ __gt__(other, fs) = ret
        /\ op = "__gt__" =>
               /\ ret = Bool(Below(other, fs))
               /\ ret = Bool(TRUE) => __gt__(other, fs) = Bool(FALSE)
        /\ (op = "__lt__" /\ fs.frange = Text_1_5 /\ other.frange = Text_5_1)
               => ret = Bool(TRUE)

\* '1-5' < '5-1'
C16_Witness ==
    /\ op = "__lt__"
    /\ fs.frange = Text_1_5
    /\ other.kind = "FrameSet"
    /\ other.frange = Text_5_1
    /\ ret = Bool(TRUE)


(***************************************************************************)
(* More properties of the run compressor (SpecCompress).                   *)
(***************************************************************************)
\* In a step of the generator the open run is the last gen.curr_count
\* frames before position gen.idx.  The step flushes it when the frame at
\* gen.idx breaks its stride or when the input has ended.
RunBreaks ==
    /\ gen.idx <= Len(gen.frames)
    /\ gen.curr_count >= 2
    /\ Abs(gen.frames[gen.idx] - gen.frames[gen.idx - 1])
           # Abs(gen.frames[gen.idx - gen.curr_count + 1]
                     - gen.frames[gen.idx - gen.curr_count])

InputEnded == gen.idx > Len(gen.frames)

\* C17 as stated: a run of length 1 renders as the single number, a run of
\* length >= 2 with stride 1 as 'start-stop', a run of length >= 3 with
\* stride > 1 as 'start-stopxstride'; [1, 2] renders as '1-2'.
C17_PairRendersAsRange ==
    [][op = "loop" =>
        LET f   == gen.frames
            i   == gen.idx
            c   == gen.curr_count
            n   == Abs(f[i - c + 1] - f[i - c])
            new == SubSeq(gen'.out, Len(gen.out) + 1, Len(gen'.out))
        IN  /\ (RunBreaks \/ InputEnded) =>
                  /\ c = 1 => new = <<SingleToken(f[i - 1], gen.zfill)>>
                  /\ (c >= 2 /\ n = 1) =>
                        new = <<RunToken(f[i - c], f[i - 1], 1, gen.zfill)>>
                  /\ (c >= 3 /\ n > 1) =>
                        new = <<RunToken(f[i - c], f[i - 1], n, gen.zfill)>>
            /\ (op' = "done" /\ input.frames = <<1, 2>> /\ input.zfill = 0) =>
                   ret'.value = <<"1", "-", "2">>
      ]_vars

\* C17 (amended): a run of length 1 renders as the single number; a run of
\* exactly 2 renders as its two numbers at the end of the input and as its
\* first number alone when the next frame breaks its stride; a run of
\* length >= 3 renders as 'start-stop' when its stride is 1 and as
\* 'start-stopxstride' when its stride is greater, and as the single number
\* when its first and last frame are the same; a step that flushes nothing
\* emits nothing; [1, 2] renders as '1,2'.
C17_TokenByRunLength ==
    [][op = "loop" =>
        LET f   == gen.frames
            i   == gen.idx
            c   == gen.curr_count
            n   == Abs(f[i - c + 1] - f[i - c])
            new == SubSeq(gen'.out, Len(gen.out) + 1, Len(gen'.out))
        IN  /\ (RunBreaks \/ InputEnded) =>
                  /\ c = 1 => new = <<SingleToken(f[i - 1], gen.zfill)>>
                  /\ (c = 2 /\ InputEnded) =>
                        new = <<SingleToken(f[i - 2], gen.zfill),
                                SingleToken(f[i - 1], gen.zfill)>>
                  /\ (c = 2 /\ RunBreaks) =>
                        new = <<SingleToken(f[i - 2], gen.zfill)>>
                  /\ (c >= 3 /\ f[i - c] = f[i - 1]) =>
                        new = <<SingleToken(f[i - 1], gen.zfill)>>
                  /\ (c >= 3 /\ f[i - c] # f[i - 1]) =>
                        new = <<RunToken(f[i - c], f[i - 1], n, gen.zfill)>>
            /\ ~(RunBreaks \/ InputEnded) => new = <<>>
            /\ (op' = "done" /\ input.frames = <<1, 2>> /\ input.zfill = 0) =>
                   ret'.value = <<"1", ",", "2">>
      ]_vars

\* [1, 2] has been rendered as '1,2'
C17_Witness ==
    /\ op = "done"
    /\ gen # NoGen
    /\ input.frames = <<1, 2>>
    /\ ret.value = <<"1", ",", "2">>


(***************************************************************************)
(* Properties of the FrameSet machine and the compressor (SpecAll).        *)
(***************************************************************************)
\* INT('-'INT('x'UINT)?)? with a chunk that is not 0
GrammarRun(tok) ==
    /\ GrammarClause(tok)
    /\ \A i \in 1..Len(tok) : tok[i] \notin {"y", ":"}
    /\ ~ZeroChunk(tok)

\* normalize, copy and the algebra
RenderingOps == {"normalize", "copy"} \cup CastingOps \cup SetCallOps

\* C19: normalize, copy and the algebra operations never give a
\* ParseException on a constructed FrameSet; every token the run compressor
\* emits with zfill 0, for any integer sequence, matches
\* INT('-'INT('x'UINT)?)? with a non-zero chunk, and the string it returns
\* is accepted by the constructor.
C19_NoParseExceptionOnValidInstance ==
    /\ op \in RenderingOps =>
          /\ fs.kind = "FrameSet"
          /\ ret.kind # "ParseException"
          /\ FrameSetInit(fs.frange).kind = "FrameSet"
          /\ ret.kind = "FrameSet" =>
                /\ FrameSetInit(ret.frange).kind = "FrameSet"
                /\ op # "copy" => \A c \in ClausesOf(ret.frange) : GrammarRun(c)
    /\ (op \in {"done", "parsed"} /\ input.kind = "frames"
            /\ input.zfill = 0) =>
          /\ gen # NoGen => \A k \in 1..Len(gen.out) : GrammarRun(gen.out[k])
          /\ \A c \in ClausesOf(IF op = "done" THEN ret.value
                                ELSE framesToFrameRange(input.frames,
                                         input.sort, 0, input.compress)) :
                 GrammarRun(c)
          /\ op = "parsed" => fs.kind = "FrameSet" /\ ret.kind = "str"

\* the descending run 3, 1, -1 has been rendered as '3--1x2' and parsed
C19_Witness ==
    /\ op = "parsed"
    /\ input.kind = "frames"
    /\ input.frames = <<3, 1, 0 - 1>>
    /\ ~input.sort
    /\ ret.kind = "str"
    /\ ret.value = <<"3", "-", "-", "1", "x", "2">>
    /\ fs.kind = "FrameSet"


NoRepeats(s) == \A i, j \in 1..Len(s) : s[i] = s[j] => i = j

\* parsing the range string of the FrameSet x gives its members and order
Faithful(x) ==
    x.kind = "FrameSet" =>
        LET again == FrameSetInit(x.frange)
        IN  /\ again.kind = "FrameSet"
            /\ again.items = x.items
            /\ again.order = x.order

\* C20: the string framesToFrameRange renders of a sequence without repeats,
\* unsorted, parses to the order of the sequence; the range string of every
\* FrameSet (parsed, built by from_iterable, returned by the algebra)
\* parses to the same members and the same order, and so do copy() and the
\* __getstate__/__setstate__ round trip.
C20_RangeStringIsFaithful ==
    /\ (op = "parsed" /\ ~input.sort /\ NoRepeats(input.frames)) =>
          /\ fs.kind = "FrameSet"
          /\ fs.order = input.frames
          /\ fs.items = Range(input.frames)
    /\ (op = "from_iterable" /\ ~input.sort /\ NoRepeats(input.frames)) =>
          fs.order = input.frames
    /\ Faithful(fs) /\ Faithful(other) /\ Faithful(ret)
    /\ (op = "copy" \/ (op = "__setstate__" /\ other = __getstate__(fs))) =>
          /\ ret.kind = "FrameSet"
          /\ ret.items = fs.items
          /\ ret.order = fs.order

\* an unsorted FrameSet that from_iterable built has been pickled and
\* restored
C20_Witness ==
    /\ op = "__setstate__"
    /\ input.kind = "iter"
    /\ input.frames = <<2, 0, 1>>
    /\ other = __getstate__(fs)
    /\ fs.frange = <<"2", ",", "0", ",", "1">>
    /\ ret.kind = "FrameSet"
    /\ ret.order = <<2, 0, 1>>


\* C21: the two padding paths agree: for every integer sequence and every
\* width w, framesToFrameRange(frames, zfill=w) is
\* padFrameRange(framesToFrameRange(frames, zfill=0), w), and
\* invertedFrameRange(w) is the unpadded inverted range padded as
\* frameRange(w) pads, the minus sign not counted in the width.
C21_PaddingPathsAgree ==
    /\ (op = "done" /\ input.kind = "frames") =>
          ret.value = padFrameRange(
                          framesToFrameRange(input.frames, input.sort, 0,
                                             input.compress),
                          input.zfill)
    /\ op = "invertedFrameRange" =>
          ret.value = padFrameRange(invertedFrameRange(fs, 0), other.value)


(***************************************************************************)
(* Properties of the FileSequence machine (SpecSeq).                       *)
(***************************************************************************)
Setters ==
    {"setPadding", "setFrameRange", "setFrameSet", "setDirname",
     "setBasename", "setExtention"}

\* zfill() is the sum of the widths of the characters of padding()
ZfillIsWidthOfPadding(s) ==
    /\ \A k \in 1..Len(s.__padding) : s.__padding[k] \in DOMAIN _PADDING
    /\ s.__zfill = SumPadding(s.__padding)

\* C22: after construction and after any sequence of setter calls, raising
\* ones included, zfill() is the sum of the widths ('#' = 4, '@' = 1) of
\* the characters of padding(), and a call that raises leaves padding(),
\* zfill() and frameSet() as they were.
C22_ZfillFollowsPadding ==
    [][/\ seq'.kind = "FileSequence" => ZfillIsWidthOfPadding(seq')
       /\ (op' \in Setters /\ ret' # NoObject) =>
              /\ seq'.__padding = seq.__padding
              /\ seq'.__zfill = seq.__zfill
              /\ seq'.__frameSet = seq.__frameSet
      ]_vars

=============================================================================
